---------------------------- MODULE Spec2Model ----------------------------
(***************************************************************************)
(* A model of the AI Text Refiner: the Prompt Service (callGemini,         *)
(* refineText, convertBanglishToEnglish and the older stand-alone          *)
(* refineText) and the Interaction Controller (the App component: its      *)
(* state, its two storage effects and its event handlers).                 *)
(*                                                                         *)
(* A JavaScript string is a sequence of one-character strings, so that     *)
(* trim, toLowerCase, startsWith, template literals, JSON.stringify and    *)
(* JSON.parse are computed character by character.  A JavaScript value     *)
(* that JSON.parse can return is a record [t |-> kind, v |-> content].     *)
(***************************************************************************)
EXTENDS Integers, Sequences, FiniteSets, TLC

(***************************************************************************)
(* Bounds of the model.                                                    *)
(***************************************************************************)
\* The longest custom-tone list the Add button is allowed to build.
MaxCustom == 2
\* The most requests the model lets be in flight at once.
MaxPending == 2
\* The most times localStorage.setItem throws in one behaviour.
MaxWriteFailures == 1

(***************************************************************************)
(* Strings.                                                                *)
(***************************************************************************)
\* null, told apart from every string: its one element is no character.
NULL == <<"null">>

\* JavaScript truthiness of a string-or-null state (if (formError) ...).
Truthy(s) == s # NULL /\ s # <<>>

\* The white space String.prototype.trim removes (of the characters used).
WhiteSpace == {" ", "\n", "\t", "\r"}

\* String.prototype.trim
Trim(s) ==
  LET keep == {i \in 1..Len(s) : s[i] \notin WhiteSpace}
  IN  IF keep = {} THEN <<>>
      ELSE SubSeq(s, CHOOSE i \in keep : \A j \in keep : i <= j,
                     CHOOSE i \in keep : \A j \in keep : j <= i)

UpperCase == <<"A","B","C","D","E","F","G","H","I","J","K","L","M",
               "N","O","P","Q","R","S","T","U","V","W","X","Y","Z">>
LowerCase == <<"a","b","c","d","e","f","g","h","i","j","k","l","m",
               "n","o","p","q","r","s","t","u","v","w","x","y","z">>

\* The lower-case letter of each upper-case letter.
LowerOf ==
  [c \in {UpperCase[i] : i \in 1..Len(UpperCase)} |->
     LowerCase[CHOOSE i \in 1..Len(UpperCase) : UpperCase[i] = c]]

LowerChar(c) == IF c \in DOMAIN LowerOf THEN LowerOf[c] ELSE c

\* String.prototype.toLowerCase
ToLowerCase(s) == [i \in 1..Len(s) |-> LowerChar(s[i])]

\* String.prototype.startsWith
StartsWith(s, p) == Len(p) <= Len(s) /\ SubSeq(s, 1, Len(p)) = p

(***************************************************************************)
(* JavaScript values and JSON.                                             *)
(***************************************************************************)
StrV(s)  == [t |-> "str", v |-> s]
ArrV(xs) == [t |-> "arr", v |-> xs]
\* A number, true, false or null, held with its canonical text.
NumV(ds) == [t |-> "num", v |-> ds]
NullV    == [t |-> "null", v |-> <<"n","u","l","l">>]
TrueV    == [t |-> "bool", v |-> <<"t","r","u","e">>]
FalseV   == [t |-> "bool", v |-> <<"f","a","l","s","e">>]
ObjV     == [t |-> "obj", v |-> <<>>]

Digits == {"0","1","2","3","4","5","6","7","8","9"}

\* A Quote that escapes nothing.
QuoteBodyUnescaped(s) == s

\* JSON's Quote: a string in double quotes, " and \ escaped.
RECURSIVE QuoteBody(_)
QuoteBody(s) ==
  IF s = <<>> THEN <<>>
  ELSE (IF Head(s) \in {"\"", "\\"} THEN <<"\\", Head(s)>> ELSE <<Head(s)>>)
       \o QuoteBody(Tail(s))

Quote(s) == <<"\"">> \o QuoteBody(s) \o <<"\"">>

\* JSON.stringify of a string, a number, a boolean, null, or an array of them.
RECURSIVE JoinElems(_)
StringifyElem(x) == IF x.t = "str" THEN Quote(x.v) ELSE x.v

JoinElems(xs) ==
  IF xs = <<>> THEN <<>>
  ELSE IF Len(xs) = 1 THEN StringifyElem(xs[1])
  ELSE StringifyElem(xs[1]) \o <<",">> \o JoinElems(Tail(xs))

JSONstringify(x) ==
  IF x.t = "arr" THEN <<"[">> \o JoinElems(x.v) \o <<"]">>
  ELSE StringifyElem(x)

(***************************************************************************)
(* JSON.parse, on the fragment of JSON the model uses: strings with the    *)
(* escapes \" \\ \/, unsigned integers, true, false, null, the empty       *)
(* object, and arrays of those.  A parse step returns [k, val, next]: k is *)
(* "ok" (a value, and the index after it), "err" (SyntaxError) or "unsup"  *)
(* (JSON outside the fragment: the model says nothing about it).           *)
(***************************************************************************)
JsonWs == {" ", "\n", "\t", "\r"}

PErr   == [k |-> "err", val |-> NullV, next |-> 0]
PUnsup == [k |-> "unsup", val |-> NullV, next |-> 0]
POk(x, n) == [k |-> "ok", val |-> x, next |-> n]

RECURSIVE SkipWs(_, _)
SkipWs(s, i) == IF i <= Len(s) /\ s[i] \in JsonWs THEN SkipWs(s, i + 1) ELSE i

\* The characters of a string literal, from index i (after the opening quote).
RECURSIVE ScanString(_, _, _)
ScanString(s, i, acc) ==
  IF i > Len(s) THEN PErr
  ELSE IF s[i] = "\"" THEN POk(StrV(acc), i + 1)
  ELSE IF s[i] \in {"\n", "\t", "\r"} THEN PErr
  ELSE IF s[i] = "\\" THEN
         IF i + 1 > Len(s) THEN PErr
         ELSE IF s[i + 1] \in {"\"", "\\", "/"}
              THEN ScanString(s, i + 2, Append(acc, s[i + 1]))
         ELSE IF s[i + 1] \in {"b", "f", "n", "r", "t", "u"} THEN PUnsup
         ELSE PErr
  ELSE ScanString(s, i + 1, Append(acc, s[i]))

RECURSIVE ScanDigits(_, _)
ScanDigits(s, i) == IF i <= Len(s) /\ s[i] \in Digits THEN ScanDigits(s, i + 1) ELSE i

ScanNumber(s, i) ==
  LET j == ScanDigits(s, i)
  IN  IF j <= Len(s) /\ s[j] \in {".", "e", "E"} THEN PUnsup
      ELSE IF s[i] = "0" /\ j > i + 1 THEN PErr
      ELSE POk(NumV(SubSeq(s, i, j - 1)), j)

ScanWord(s, i, w, x) ==
  IF i + Len(w) - 1 <= Len(s) /\ SubSeq(s, i, i + Len(w) - 1) = w
  THEN POk(x, i + Len(w))
  ELSE PErr

\* A value that is no array, from index i (white space already skipped).
ScanScalar(s, i) ==
  IF i > Len(s) THEN PErr
  ELSE IF s[i] = "\"" THEN ScanString(s, i + 1, <<>>)
  ELSE IF s[i] \in Digits THEN ScanNumber(s, i)
  ELSE IF s[i] = "-" THEN PUnsup
  ELSE IF s[i] = "n" THEN ScanWord(s, i, <<"n","u","l","l">>, NullV)
  ELSE IF s[i] = "t" THEN ScanWord(s, i, <<"t","r","u","e">>, TrueV)
  ELSE IF s[i] = "f" THEN ScanWord(s, i, <<"f","a","l","s","e">>, FalseV)
  ELSE IF s[i] = "{" THEN
         LET j == SkipWs(s, i + 1)
         IN  IF j > Len(s) THEN PErr
             ELSE IF s[j] = "}" THEN POk(ObjV, j + 1)
             ELSE IF s[j] = "\"" THEN PUnsup
             ELSE PErr
  ELSE PErr

\* The elements of an array, from index i (after "[" or after ",").
RECURSIVE ScanElems(_, _, _)
ScanElems(s, i, acc) ==
  LET j == SkipWs(s, i)
  IN  IF j <= Len(s) /\ s[j] = "[" THEN PUnsup
      ELSE LET e == ScanScalar(s, j)
           IN  IF e.k # "ok" THEN e
               ELSE LET n == SkipWs(s, e.next)
                    IN  IF n > Len(s) THEN PErr
                        ELSE IF s[n] = "]" THEN POk(ArrV(Append(acc, e.val)), n + 1)
                        ELSE IF s[n] = "," THEN ScanElems(s, n + 1, Append(acc, e.val))
                        ELSE PErr

ScanValue(s, i) ==
  IF i <= Len(s) /\ s[i] = "[" THEN
    LET j == SkipWs(s, i + 1)
    IN  IF j <= Len(s) /\ s[j] = "]" THEN POk(ArrV(<<>>), j + 1)
        ELSE ScanElems(s, j, <<>>)
  ELSE ScanScalar(s, i)

\* JSON.parse(text): one value, white space around it, nothing after it.
JSONparse(text) ==
  LET r == ScanValue(text, SkipWs(text, 1))
  IN  IF r.k # "ok" THEN r
      ELSE IF SkipWs(text, r.next) <= Len(text) THEN PErr
      ELSE r


(***************************************************************************)
(* The Prompt Service.                                                     *)
(***************************************************************************)
English  == <<"E","n","g","l","i","s","h">>
Banglish == <<"B","a","n","g","l","i","s","h"," ","(","B","e","n","g","a","l","i"," ","i","n"," ",
       "E","n","g","l","i","s","h"," ","l","e","t","t","e","r","s",")">>
Bangla   == <<"B","e","n","g","a","l","i"," ","(","B","a","n","g","l","a"," ","s","c","r","i","p",
       "t",")">>

Languages == {English, Banglish, Bangla}

\* What ai.models.generateContent does with one request: it resolves with a
\* response whose text is v ("text"), resolves with a response that has no
\* text ("noText"), rejects with an Error whose message is v ("error"), or
\* rejects with a value that is no Error ("nonError").
ApiText(s)  == [k |-> "text", v |-> s]
ApiError(m) == [k |-> "error", v |-> m]
ApiNoText   == [k |-> "noText", v |-> <<>>]
ApiNonError == [k |-> "nonError", v |-> <<>>]

\* The message of the TypeError that response.text.trim() throws when
\* response.text is undefined.
TrimOfUndefined == <<"C","a","n","n","o","t"," ","r","e","a","d"," ","p","r","o","p","e","r","t","i","e",
       "s"," ","o","f"," ","u","n","d","e","f","i","n","e","d"," ","(","r","e","a","d","i",
       "n","g"," ","'","t","r","i","m","'",")">>

\* The template literal ${x} of a string, a number, a boolean or null.
TemplateStr(x) == x.v

\* refineText's prompt
RefinePrompt(text, language, tone) ==
  <<"\n"," "," "," "," ","P","l","e","a","s","e"," ","r","e","f","i","n","e"," ","t",
       "h","e"," ","f","o","l","l","o","w","i","n","g"," ","'">> \o language \o <<"'"," ","t","e","x","t"," ","i","n","t","o"," ","a"," ","'">>
  \o TemplateStr(tone) \o <<"'"," ","t","o","n","e",".","\n"," "," "," "," ","E","n","s","u","r","e"," ","t",
       "h","e"," ","o","u","t","p","u","t"," ","r","e","m","a","i","n","s"," ","i","n"," ",
       "'">> \o language
  \o <<"'",".","\n","\n"," "," "," "," ","O","r","i","g","i","n","a","l"," ","T","e","x",
       "t",":","\n"," "," "," "," ","-","-","-","\n"," "," "," "," ">> \o text \o <<"\n"," "," "," "," ","-","-","-","\n"," "," ">>

\* convertBanglishToEnglish's prompt
ConvertPrompt(text, tone) ==
  <<"\n"," "," "," "," ","P","l","e","a","s","e"," ","t","r","a","n","s","l","a","t",
       "e"," ","t","h","e"," ","f","o","l","l","o","w","i","n","g"," ","'","B","a","n","g",
       "l","i","s","h","'"," ","t","e","x","t"," ","i","n","t","o"," ","E","n","g","l","i",
       "s","h"," ","w","i","t","h"," ","a"," ","'">>
  \o TemplateStr(tone) \o <<"'"," ","t","o","n","e",".","\n","\n"," "," "," "," ","O","r","i","g","i","n","a",
       "l"," ","B","a","n","g","l","i","s","h"," ","T","e","x","t",":","\n"," "," "," ",
       " ","-","-","-","\n"," "," "," "," ">>
  \o text \o <<"\n"," "," "," "," ","-","-","-","\n"," "," ">>

\* callGemini's guard: whether the request is sent to the API at all.
CallGeminiCalls(prompt) == Trim(prompt) # <<>>

\* callGemini's try/catch around the awaited call: what it returns for an
\* outcome of the API.
CallGeminiResult(outcome) ==
  CASE outcome.k = "text"     -> Trim(outcome.v)
    [] outcome.k = "error"    -> <<"E","r","r","o","r",":"," ","F","a","i","l","e","d"," ","t","o"," ","p","r","o","c",
       "e","s","s"," ","t","e","x","t","."," ">> \o outcome.v
    [] outcome.k = "noText"   -> <<"E","r","r","o","r",":"," ","F","a","i","l","e","d"," ","t","o"," ","p","r","o","c",
       "e","s","s"," ","t","e","x","t","."," ">> \o TrimOfUndefined
    [] outcome.k = "nonError" -> <<"A","n"," ","u","n","k","n","o","w","n"," ","e","r","r","o","r"," ","o","c","c","u",
       "r","r","e","d"," ","w","h","i","l","e"," ","p","r","o","c","e","s","s","i","n","g",
       " ","t","e","x","t",".">>

\* callGemini(prompt, systemInstruction): the string returned and the number
\* of calls made to the API.
CallGemini(prompt, outcome) ==
  IF ~CallGeminiCalls(prompt)
  THEN [result |-> <<>>, calls |-> 0]
  ELSE [result |-> CallGeminiResult(outcome), calls |-> 1]

\* refineText and convertBanglishToEnglish of the Prompt Service
RefineText(text, language, tone, outcome) ==
  CallGemini(RefinePrompt(text, language, tone), outcome)

ConvertBanglishToEnglish(text, tone, outcome) ==
  CallGemini(ConvertPrompt(text, tone), outcome)

\* The older stand-alone refineText (services/geminiService.ts)
LegacyRefineText(text, language, tone, outcome) ==
  IF Trim(text) = <<>>
  THEN [result |-> <<>>, calls |-> 0]
  ELSE [calls |-> 1,
        result |->
          CASE outcome.k = "text"     -> Trim(outcome.v)
            [] outcome.k = "error"    -> <<"E","r","r","o","r",":"," ","F","a","i","l","e","d"," ","t","o"," ","r","e","f","i",
       "n","e"," ","t","e","x","t","."," ">> \o outcome.v
            [] outcome.k = "noText"   -> <<"E","r","r","o","r",":"," ","F","a","i","l","e","d"," ","t","o"," ","r","e","f","i",
       "n","e"," ","t","e","x","t","."," ">> \o TrimOfUndefined
            [] outcome.k = "nonError" -> <<"A","n"," ","u","n","k","n","o","w","n"," ","e","r","r","o","r"," ","o","c","c","u",
       "r","r","e","d"," ","w","h","i","l","e"," ","r","e","f","i","n","i","n","g"," ","t",
       "e","x","t",".">>]


(***************************************************************************)
(* The Interaction Controller: constants.                                  *)
(***************************************************************************)
RefineEnglish     == <<"r","e","f","i","n","e","-","a","s","-","E","n","g","l","i","s","h">>
RefineBanglish    == <<"r","e","f","i","n","e","-","a","s","-","B","a","n","g","l","i","s","h">>
RefineBangla      == <<"r","e","f","i","n","e","-","a","s","-","B","a","n","g","l","a">>
BanglishToEnglish == <<"c","o","n","v","e","r","t","-","B","a","n","g","l","i","s","h","-","t","o","-","E",
       "n","g","l","i","s","h">>

\* Object.values(Task)
taskOptions == {RefineEnglish, RefineBanglish, RefineBangla, BanglishToEnglish}

\* Tone.PROFESSIONAL, the default tone
Professional == StrV(<<"P","r","o","f","e","s","s","i","o","n","a","l">>)

\* Object.values(Tone)
predefinedTones ==
  <<Professional, StrV(<<"C","a","s","u","a","l">>), StrV(<<"C","r","a","z","y">>), StrV(<<"C","o","o","l">>)>>

taskToLanguageMap ==
  [task \in {RefineEnglish, RefineBanglish, RefineBangla} |->
     IF task = RefineEnglish THEN English
     ELSE IF task = RefineBanglish THEN Banglish ELSE Bangla]

EmptyInputError == <<"P","l","e","a","s","e"," ","e","n","t","e","r"," ","s","o","m","e"," ","t","e","x",
       "t"," ","t","o"," ","p","r","o","c","e","s","s",".">>
LoadError       == <<"C","o","u","l","d"," ","n","o","t"," ","l","o","a","d"," ","c","u","s","t","o","m",
       " ","t","o","n","e","s",".">>
SaveError       == <<"C","o","u","l","d"," ","n","o","t"," ","s","a","v","e"," ","c","u","s","t","o","m",
       " ","t","o","n","e","s",".">>
EmptyToneError  == <<"C","u","s","t","o","m"," ","t","o","n","e"," ","c","a","n","n","o","t"," ","b","e",
       " ","e","m","p","t","y",".">>
DuplicateError  == <<"T","h","i","s"," ","t","o","n","e"," ","a","l","r","e","a","d","y"," ","e","x","i",
       "s","t","s",".">>
ErrorMarker     == <<"E","r","r","o","r",":">>

TaskNotConfigured(task) ==
  <<"E","r","r","o","r",":"," ","T","a","s","k"," ","'">> \o task \o <<"'"," ","i","s"," ","n","o","t"," ","c","o","n","f","i","g","u","r","e","d"," ","c",
       "o","r","r","e","c","t","l","y",".">>

(***************************************************************************)
(* The inputs the model draws from.  The state space is the product of the *)
(* tone management and of the processing, so a behaviour draws its inputs  *)
(* from one of two profiles.  "tones" is rich in tone inputs, store        *)
(* contents and store faults, and leaves the text area empty (a Process    *)
(* click takes the blank-input path).  "process" is rich in texts, tasks   *)
(* and API outcomes, with one tone to add and a store that never fails.    *)
(***************************************************************************)
\* What the durable store may hold under the key when the page loads:
\* nothing (getItem returns null), or one of these texts.
StoreTexts ==
  {<<>>, <<"[","]">>, <<"[","\"","z","e","n","\"","]">>, <<" ","["," ","\"","z","e","n","\""," ",","," ","\"","Z","e","n","\""," ","]"," ">>, <<"[","5",",","\"","z","e","n","\"","]">>, <<"[","{","}","]">>,
   <<"5">>, <<"{","}">>, <<"\"","z","\"">>, <<"[","\"","z","e","n","\"">>}

StoreContents == {NULL} \cup {s \in StoreTexts : JSONparse(s).k # "unsup"}

ToneProfile ==
  [name       |-> "tones",
   texts      |-> {},
   tasks      |-> {},
   toneInputs |-> {<<" ">>, <<"z","e","n">>, <<" ","Z","e","n"," ">>, <<"C","O","O","L">>, <<"a","\"","\\">>},
   outcomes   |-> {},
   writeOk    |-> BOOLEAN]

ProcessProfile ==
  [name       |-> "process",
   texts      |-> {<<>>, <<" "," ">>, <<" ","h","i"," ">>},
   tasks      |-> taskOptions,
   toneInputs |-> {<<"z","e","n">>},
   outcomes   |-> {ApiText(<<" ","o","k"," ">>), ApiText(<<" ">>), ApiText(<<"E","r","r","o","r",":"," ","n","o">>),
                   ApiError(<<"q","u","o","t","a"," ","e","x","c","e","e","d","e","d">>), ApiNoText, ApiNonError},
   writeOk    |-> {TRUE}]

(***************************************************************************)
(* State.                                                                  *)
(***************************************************************************)
VARIABLES
  phase,            \* "unmounted", "running", or "crashed" (a render threw)
  inputText, selectedTask, selectedTone, outputText, isLoading,
  apiError, formError, customTones, customToneInput,   \* useState of App
  store,            \* localStorage[CUSTOM_TONES_STORAGE_KEY], or NULL
  pending,          \* the calls awaiting the API's response, by function
  last,             \* history: the handler that ran last, and its argument
  memTones,         \* history: the custom tones in memory after the last change
  writeFailures,    \* history: how often localStorage.setItem has thrown
  svcCall, svcReturn, \* a direct call of the Prompt Service, and its result
  profile           \* the profile this behaviour draws its inputs from

vars == <<phase, inputText, selectedTask, selectedTone, outputText, isLoading,
          apiError, formError, customTones, customToneInput, store, pending,
          last, memTones, writeFailures, svcCall, svcReturn, profile>>

appState == <<inputText, selectedTask, selectedTone, outputText, isLoading,
              apiError, formError, customTones, customToneInput>>

\* The sets this behaviour draws its inputs from.
Inputs == IF profile = "tones" THEN ToneProfile ELSE ProcessProfile

None == [op |-> "none", arg |-> <<>>]

\* last, after a handler no property speaks about.
Other == [op |-> "other", arg |-> <<>>]

\* memTones before the first list is in memory.
NoTones == [t |-> "none", v |-> <<>>]

(***************************************************************************)
(* Rendering.                                                              *)
(***************************************************************************)
\* [...x] of an array or a string; anything else is not iterable.
Iterable(x) == x.t \in {"arr", "str"}

Spread(x) ==
  IF x.t = "arr" THEN x.v ELSE [i \in 1..Len(x.v) |-> StrV(<<x.v[i]>>)]

\* allTones = [...predefinedTones, ...customTones]
allTonesOf(ct) == predefinedTones \o Spread(ct)

allTones == allTonesOf(customTones)

\* isCustom = !predefinedTones.includes(tone)
isCustom(tone) == \A i \in 1..Len(predefinedTones) : predefinedTones[i] # tone

\* Rendering App throws when customTones cannot be spread, or when a tone
\* is an object (no valid React child): the component is gone.
RenderThrows(ct) ==
  \/ ~Iterable(ct)
  \/ \E i \in 1..Len(Spread(ct)) : Spread(ct)[i].t = "obj"

\* A Process button that is never disabled.
ProcessButtonAlwaysEnabled == TRUE

\* disabled={isLoading} of the Process button
ProcessButtonEnabled == ~isLoading

(***************************************************************************)
(* The two storage effects.                                                *)
(***************************************************************************)
Failed(ok) == IF ok THEN 0 ELSE 1

\* Whether setItem may throw once more in this behaviour.
MayFail == IF writeFailures < MaxWriteFailures THEN Inputs.writeOk ELSE {TRUE}

\* The save effect, run for the list ct: localStorage.setItem succeeds
\* (ok) or throws.  The store and the form error after it.
SaveEffect(ct, ok, st, fe) ==
  IF ok THEN [store |-> JSONstringify(ct), formError |-> fe]
  ELSE [store |-> st, formError |-> SaveError]

\* The load effect: what it sets customTones to (set = FALSE: not at all)
\* and the form error after it.
LoadEffect(st) ==
  IF ~Truthy(st) THEN [set |-> FALSE, val |-> ArrV(<<>>), formError |-> NULL]
  ELSE LET r == JSONparse(st)
       IN  IF r.k = "ok" THEN [set |-> TRUE, val |-> r.val, formError |-> NULL]
           ELSE [set |-> FALSE, val |-> ArrV(<<>>), formError |-> LoadError]

\* The first render and its effects: the load effect, the save effect of
\* the initial empty list, and, when the load effect set the list, the next
\* render and the save effect of the loaded list.
Mount ==
  /\ phase = "unmounted"
  /\ \E ok1 \in MayFail, ok2 \in MayFail :
       LET ld == LoadEffect(store)
           s1 == SaveEffect(ArrV(<<>>), ok1, store, ld.formError)
           s2 == SaveEffect(ld.val, ok2, s1.store, s1.formError)
       IN  /\ writeFailures + Failed(ok1) + Failed(ok2) <= MaxWriteFailures
           /\ customTones' = ld.val
           /\ IF ~ld.set
              THEN /\ phase' = "running"
                   /\ store' = s1.store
                   /\ formError' = s1.formError
                   /\ writeFailures' = writeFailures + Failed(ok1)
              ELSE IF RenderThrows(ld.val)
              THEN /\ phase' = "crashed"
                   /\ store' = s1.store
                   /\ formError' = s1.formError
                   /\ writeFailures' = writeFailures + Failed(ok1)
              ELSE /\ phase' = "running"
                   /\ store' = s2.store
                   /\ formError' = s2.formError
                   /\ writeFailures' = writeFailures + Failed(ok1) + Failed(ok2)
           /\ memTones' = IF memTones = NoTones /\ phase' = "running"
                          THEN ld.val ELSE memTones
  /\ last' = [op |-> "mount", arg |-> <<>>]
  /\ UNCHANGED <<inputText, selectedTask, selectedTone, outputText, isLoading,
                 apiError, customToneInput, pending, svcCall, svcReturn, profile>>

\* The page is loaded again: the component state is new, the store is kept,
\* and the responses of the old page's requests reach nobody.
Reload ==
  /\ phase \in {"running", "crashed"}
  /\ phase' = "unmounted"
  /\ inputText' = <<>>
  /\ selectedTask' = RefineEnglish
  /\ selectedTone' = Professional
  /\ outputText' = <<>>
  /\ isLoading' = FALSE
  /\ apiError' = NULL
  /\ formError' = NULL
  /\ customTones' = ArrV(<<>>)
  /\ customToneInput' = <<>>
  /\ pending' = <<>>
  /\ last' = Other
  /\ UNCHANGED <<store, memTones, writeFailures, svcCall, svcReturn, profile>>

(***************************************************************************)
(* The event handlers.                                                     *)
(***************************************************************************)
\* onChange of the text area
SetInputText(text) ==
  /\ phase = "running"
  /\ inputText' = text
  /\ last' = Other
  /\ UNCHANGED <<phase, selectedTask, selectedTone, outputText, isLoading,
                 apiError, formError, customTones, customToneInput, store,
                 pending, memTones, writeFailures, svcCall, svcReturn, profile>>

\* onClick of a task button
SetSelectedTask(task) ==
  /\ phase = "running"
  /\ selectedTask' = task
  /\ last' = Other
  /\ UNCHANGED <<phase, inputText, selectedTone, outputText, isLoading,
                 apiError, formError, customTones, customToneInput, store,
                 pending, memTones, writeFailures, svcCall, svcReturn, profile>>

\* onClick of the button of the i-th tone of allTones
SetSelectedTone(i) ==
  /\ phase = "running"
  /\ selectedTone' = allTones[i]
  /\ last' = Other
  /\ UNCHANGED <<phase, inputText, selectedTask, outputText, isLoading,
                 apiError, formError, customTones, customToneInput, store,
                 pending, memTones, writeFailures, svcCall, svcReturn, profile>>

\* onChange of the custom-tone field
SetCustomToneInput(text) ==
  /\ phase = "running"
  /\ customToneInput' = text
  /\ formError' = IF Truthy(formError) THEN NULL ELSE formError
  /\ last' = Other
  /\ UNCHANGED <<phase, inputText, selectedTask, selectedTone, outputText,
                 isLoading, apiError, customTones, store, pending, memTones,
                 writeFailures, svcCall, svcReturn, profile>>

\* allTones.some((t) => t.toLowerCase() === newTone.toLowerCase()): "dup"
\* (true), "none" (false) or "throws" (a tone that is no string comes first).
RECURSIVE SomeEqualsIgnoringCase(_, _)
SomeEqualsIgnoringCase(tones, newTone) ==
  IF tones = <<>> THEN "none"
  ELSE IF Head(tones).t # "str" THEN "throws"
  ELSE IF ToLowerCase(Head(tones).v) = ToLowerCase(newTone) THEN "dup"
  ELSE SomeEqualsIgnoringCase(Tail(tones), newTone)

\* A duplicate test that tells upper case from lower case.
RECURSIVE IsDuplicateCaseSensitive(_, _)
IsDuplicateCaseSensitive(tones, newTone) ==
  IF tones = <<>> THEN "none"
  ELSE IF Head(tones).t # "str" THEN "throws"
  ELSE IF Head(tones).v = newTone THEN "dup"
  ELSE IsDuplicateCaseSensitive(Tail(tones), newTone)

\* handleAddCustomTone's duplicate test
IsDuplicate(tones, newTone) == SomeEqualsIgnoringCase(tones, newTone)

\* handleAddCustomTone, and the save effect that follows a changed list
HandleAddCustomTone ==
  /\ phase = "running"
  /\ LET newTone == Trim(customToneInput)
         some    == IsDuplicate(allTones, newTone)
     IN  IF newTone = <<>> THEN
           /\ formError' = EmptyToneError
           /\ last' = [op |-> "add", arg |-> "empty"]
           /\ UNCHANGED <<customTones, customToneInput, store, memTones,
                          writeFailures>>
         ELSE IF some = "dup" THEN
           /\ formError' = DuplicateError
           /\ last' = [op |-> "add", arg |-> "duplicate"]
           /\ UNCHANGED <<customTones, customToneInput, store, memTones,
                          writeFailures>>
         ELSE IF some = "throws" THEN
           /\ last' = [op |-> "add", arg |-> "threw"]
           /\ UNCHANGED <<formError, customTones, customToneInput, store,
                          memTones, writeFailures>>
         ELSE
           /\ Len(Spread(customTones)) < MaxCustom
           /\ \E ok \in MayFail :
                LET ct == ArrV(Append(Spread(customTones), StrV(newTone)))
                    sv == SaveEffect(ct, ok, store, NULL)
                IN  /\ customTones' = ct
                    /\ memTones' = ct
                    /\ customToneInput' = <<>>
                    /\ store' = sv.store
                    /\ formError' = sv.formError
                    /\ writeFailures' = writeFailures + Failed(ok)
           /\ last' = [op |-> "add", arg |-> "added"]
  /\ UNCHANGED <<phase, inputText, selectedTask, selectedTone, outputText,
                 isLoading, apiError, pending, svcCall, svcReturn, profile>>

\* prev.filter((t) => t !== toneToRemove)
RECURSIVE FilterOut(_, _)
FilterOut(tones, tone) ==
  IF tones = <<>> THEN <<>>
  ELSE (IF Head(tones) # tone THEN <<Head(tones)>> ELSE <<>>)
       \o FilterOut(Tail(tones), tone)

\* A removal that leaves the selection alone.
SelectionKept(selected, toneToRemove) == selected

\* The selection after handleRemoveCustomTone(toneToRemove)
SelectionAfterRemove(selected, toneToRemove) ==
  IF selected = toneToRemove THEN Professional ELSE selected

\* handleRemoveCustomTone of the i-th tone of allTones (shown with a remove
\* button when it is custom), and the save effect that follows.  A
\* customTones that is a string has no filter: the updater throws in the
\* next render.
HandleRemoveCustomTone(i) ==
  /\ phase = "running"
  /\ isCustom(allTones[i])
  /\ LET tone == allTones[i]
     IN  /\ last' = [op |-> "remove",
                      arg |-> [tone |-> tone, wasSelected |-> selectedTone = tone]]
         /\ selectedTone' = SelectionAfterRemove(selectedTone, tone)
         /\ IF customTones.t # "arr" THEN
              /\ phase' = "crashed"
              /\ UNCHANGED <<customTones, store, formError, memTones, writeFailures>>
            ELSE
              /\ phase' = phase
              /\ \E ok \in MayFail :
                   LET ct == ArrV(FilterOut(customTones.v, tone))
                       sv == SaveEffect(ct, ok, store, formError)
                   IN  /\ customTones' = ct
                       /\ memTones' = ct
                       /\ store' = sv.store
                       /\ formError' = sv.formError
                       /\ writeFailures' = writeFailures + Failed(ok)
  /\ UNCHANGED <<inputText, selectedTask, outputText, isLoading, apiError,
                 customToneInput, pending, svcCall, svcReturn, profile>>

\* A test of the input that forgets to trim it.
IsBlankUntrimmed(text) == text = <<>>

\* handleRefine's test of the input: !inputText.trim()
IsBlank(text) == Trim(text) = <<>>

\* The request handleRefine makes of the Prompt Service.
RequestOf(text, task, tone) ==
  IF task = BanglishToEnglish
  THEN [fn |-> "convertBanglishToEnglish", prompt |-> ConvertPrompt(text, tone)]
  ELSE [fn |-> "refineText",
        prompt |-> RefinePrompt(text, taskToLanguageMap[task], tone)]

\* handleRefine up to its await: the click on the Process button.  A call
\* that callGemini answers without the API resumes the handler at once.
HandleRefine ==
  /\ phase = "running"
  /\ ProcessButtonEnabled
  /\ IF IsBlank(inputText) THEN
       /\ apiError' = EmptyInputError
       /\ outputText' = <<>>
       /\ last' = [op |-> "refine", arg |-> "blank"]
       /\ UNCHANGED <<isLoading, pending>>
     ELSE IF selectedTask # BanglishToEnglish
             /\ selectedTask \notin DOMAIN taskToLanguageMap THEN
       /\ apiError' = TaskNotConfigured(selectedTask)
       /\ outputText' = <<>>
       /\ isLoading' = FALSE
       /\ last' = [op |-> "refine", arg |-> "notConfigured"]
       /\ UNCHANGED pending
     ELSE LET req == RequestOf(inputText, selectedTask, selectedTone)
          IN  /\ apiError' = NULL
              /\ outputText' = <<>>
              /\ IF CallGeminiCalls(req.prompt)
                 THEN /\ Len(pending) < MaxPending
                      /\ isLoading' = TRUE
                      /\ pending' = Append(pending, req.fn)
                      /\ last' = [op |-> "refine", arg |-> "sent"]
                 ELSE /\ isLoading' = FALSE
                      /\ last' = [op |-> "refine", arg |-> "notSent"]
                      /\ UNCHANGED pending
  /\ UNCHANGED <<phase, inputText, selectedTask, selectedTone, formError,
                 customTones, customToneInput, store, memTones, writeFailures,
                 svcCall, svcReturn, profile>>

\* A result handling that shows the result as output whatever it is.
ResultHandlingWithoutElse(result, ae, ot) ==
  [apiError |-> IF StartsWith(result, ErrorMarker) THEN result ELSE ae,
   outputText |-> result]

\* handleRefine after its await: where the result of the Prompt Service goes.
ResultHandling(result, ae, ot) ==
  IF StartsWith(result, ErrorMarker)
  THEN [apiError |-> result, outputText |-> ot]
  ELSE [apiError |-> ae, outputText |-> result]

\* The API answers the i-th request in flight, and handleRefine resumes.
ApiResponds(i, outcome) ==
  /\ phase = "running"
  /\ i \in 1..Len(pending)
  /\ LET r == ResultHandling(CallGeminiResult(outcome), apiError, outputText)
     IN  /\ apiError' = r.apiError
         /\ outputText' = r.outputText
  /\ isLoading' = FALSE
  /\ pending' = SubSeq(pending, 1, i - 1) \o SubSeq(pending, i + 1, Len(pending))
  /\ last' = [op |-> "response", arg |-> outcome]
  /\ UNCHANGED <<phase, inputText, selectedTask, selectedTone, formError,
                 customTones, customToneInput, store, memTones, writeFailures,
                 svcCall, svcReturn, profile>>

\* The state of App before its first render.
\* The state of App before its first render.
InitApp ==
  /\ phase = "unmounted"
  /\ inputText = <<>>
  /\ selectedTask = RefineEnglish
  /\ selectedTone = Professional
  /\ outputText = <<>>
  /\ isLoading = FALSE
  /\ apiError = NULL
  /\ formError = NULL
  /\ customTones = ArrV(<<>>)
  /\ customToneInput = <<>>
  /\ pending = <<>>
  /\ last = None
  /\ memTones = NoTones
  /\ writeFailures = 0

(***************************************************************************)
(* Direct calls of the Prompt Service, as a caller other than the          *)
(* Controller may make them: svcCall is the call, svcReturn what it gave.  *)
(***************************************************************************)
ServiceTexts == {<<>>, <<" "," ">>, <<"\n">>, <<" ","h","i"," ">>}
ServiceTones == {Professional, StrV(<<"z","e","n">>)}

ServiceOutcomes ==
  {ApiText(<<" ","o","k"," ">>), ApiText(<<" ">>), ApiText(<<"E","r","r","o","r",":"," ","n","o">>),
   ApiError(<<"q","u","o","t","a"," ","e","x","c","e","e","d","e","d">>), ApiNoText, ApiNonError}

NoCall == [fn |-> "none", text |-> <<>>, language |-> English,
           tone |-> Professional, outcome |-> ApiNoText]

ServiceCalls ==
  [fn : {"refineText", "convertBanglishToEnglish", "legacyRefineText"},
   text : ServiceTexts, language : Languages, tone : ServiceTones,
   outcome : ServiceOutcomes]

NotReturned == [done |-> FALSE, result |-> <<>>, calls |-> 0]

Returned(r) == [done |-> TRUE, result |-> r.result, calls |-> r.calls]

InvokeRefineText ==
  /\ svcCall.fn = "refineText"
  /\ ~svcReturn.done
  /\ svcReturn' = Returned(RefineText(svcCall.text, svcCall.language,
                                      svcCall.tone, svcCall.outcome))
  /\ UNCHANGED <<phase, appState, store, pending, last, memTones,
                 writeFailures, svcCall, profile>>

InvokeConvertBanglishToEnglish ==
  /\ svcCall.fn = "convertBanglishToEnglish"
  /\ ~svcReturn.done
  /\ svcReturn' = Returned(ConvertBanglishToEnglish(svcCall.text, svcCall.tone,
                                                    svcCall.outcome))
  /\ UNCHANGED <<phase, appState, store, pending, last, memTones,
                 writeFailures, svcCall, profile>>

InvokeLegacyRefineText ==
  /\ svcCall.fn = "legacyRefineText"
  /\ ~svcReturn.done
  /\ svcReturn' = Returned(LegacyRefineText(svcCall.text, svcCall.language,
                                            svcCall.tone, svcCall.outcome))
  /\ UNCHANGED <<phase, appState, store, pending, last, memTones,
                 writeFailures, svcCall, profile>>

ServiceInit ==
  /\ InitApp
  /\ profile = "process"
  /\ store = NULL
  /\ svcCall \in ServiceCalls
  /\ svcReturn = NotReturned

ServiceNext ==
  \/ InvokeRefineText
  \/ InvokeConvertBanglishToEnglish
  \/ InvokeLegacyRefineText

ServiceSpec == ServiceInit /\ [][ServiceNext]_vars

(***************************************************************************)
(* The specification of the Controller.                                    *)
(***************************************************************************)
Init ==
  /\ InitApp
  /\ svcCall = NoCall
  /\ svcReturn = NotReturned
  /\ \/ profile = "tones" /\ store \in StoreContents
     \/ profile = "process" /\ store \in {NULL, <<"[","\"","z","e","n","\"","]">>}

Next ==
  \/ Mount
  \/ Reload
  \/ \E text \in Inputs.texts : SetInputText(text)
  \/ \E task \in Inputs.tasks : SetSelectedTask(task)
  \/ \E i \in 1..Len(allTones) : SetSelectedTone(i)
  \/ \E text \in Inputs.toneInputs : SetCustomToneInput(text)
  \/ HandleAddCustomTone
  \/ \E i \in 1..Len(allTones) : HandleRemoveCustomTone(i)
  \/ HandleRefine
  \/ \E i \in 1..Len(pending), outcome \in Inputs.outcomes : ApiResponds(i, outcome)

Spec == Init /\ [][Next]_vars

\* The Controller started on an empty store.
InitEmptyStore ==
  /\ InitApp
  /\ svcCall = NoCall
  /\ svcReturn = NotReturned
  /\ profile \in {"tones", "process"}
  /\ store = NULL

SpecEmptyStore == InitEmptyStore /\ [][Next]_vars

(***************************************************************************)
(* Properties of the Prompt Service (ServiceSpec).                         *)
(***************************************************************************)
\* C1: a Prompt Service call with an empty or white-space-only text returns
\* the empty string and makes no call to the API.
C1_BlankTextMakesNoCall ==
  (svcReturn.done /\ Trim(svcCall.text) = <<>>)
    => (svcReturn.result = <<>> /\ svcReturn.calls = 0)

\* C2: whatever way the API call fails (an Error thrown, a value thrown that
\* is no Error, a response without text), the Prompt Service returns a
\* string that begins with "Error:".
C2_FailureReturnsErrorMarker ==
  (svcReturn.done /\ svcReturn.calls = 1 /\ svcCall.outcome.k # "text")
    => StartsWith(svcReturn.result, ErrorMarker)

(***************************************************************************)
(* Properties of the Controller (Spec, SpecEmptyStore).                    *)
(***************************************************************************)
\* C3: when the API call of a Process action fails, the action ends with the
\* failure message in apiError and outputText empty; and a successful result
\* is not put in apiError.
C3_FailureShownAsApiError ==
  (last.op = "response")
    => IF last.arg.k # "text"
       THEN apiError = CallGeminiResult(last.arg) /\ outputText = <<>>
       ELSE apiError = NULL

\* C4: a Process action on an empty or white-space-only input sets an error
\* message and stops: no request is sent, the loading flag is not set, and
\* the task, the tone and the custom tones stay as they were.
C4_BlankProcessAborts ==
  [][(last'.op = "refine" /\ Trim(inputText) = <<>>)
       => /\ apiError' = EmptyInputError
          /\ pending' = pending
          /\ ~isLoading /\ ~isLoading'
          /\ selectedTask' = selectedTask
          /\ selectedTone' = selectedTone
          /\ customTones' = customTones]_vars

\* A Process click on a white-space-only input, custom tones in the list.
C4_Witness ==
  /\ last.op = "refine"
  /\ inputText # <<>> /\ Trim(inputText) = <<>>
  /\ apiError = EmptyInputError
  /\ customTones.v # <<>>

\* Whether some tone of the list equals the new tone, ignoring case.
HasEqualIgnoringCase(tones, newTone) ==
  \E i \in 1..Len(tones) :
    tones[i].t = "str" /\ ToLowerCase(tones[i].v) = ToLowerCase(newTone)

\* No two tones of the list are equal ignoring case.
NoTwoEqualIgnoringCase(tones) ==
  \A i, j \in 1..Len(tones) :
    (i # j /\ tones[i].t = "str" /\ tones[j].t = "str")
      => ToLowerCase(tones[i].v) # ToLowerCase(tones[j].v)

C6_SelectionStaysInList ==
  /\ [][(last'.op = "remove")
          => selectedTone' = (IF selectedTone = last'.arg.tone
                              THEN Professional ELSE selectedTone)]_vars
  /\ [](phase = "running"
          => \E i \in 1..Len(allTones) : allTones[i] = selectedTone)

\* The selected custom tone has just been removed.
C6_Witness ==
  /\ phase = "running"
  /\ last.op = "remove"
  /\ last.arg.wasSelected
  /\ isCustom(last.arg.tone)
  /\ selectedTone = Professional

\* Equality of two JavaScript values.
SameValue(a, b) == a.t = b.t /\ a.v = b.v

\* C7: while no store write has failed, after every add and remove (and its
\* save effect) the store holds the list in memory, and the Controller
\* started again on that store has that very list.
C7_StoreHoldsTheList ==
  (phase = "running" /\ writeFailures = 0)
    => /\ store # NULL
       /\ JSONparse(store).k = "ok"
       /\ SameValue(JSONparse(store).val, customTones)
       /\ SameValue(customTones, memTones)

\* Two tones added, one with a quote and a backslash, and the page loaded
\* again on the store they were saved to.
C7_Witness ==
  /\ phase = "running"
  /\ writeFailures = 0
  /\ last.op = "mount"
  /\ customTones = ArrV(<<StrV(<<"a","\"","\\">>), StrV(<<"Z","e","n">>)>>)

\* Whether the store's content deserializes into a list of tones.
IsToneList(st) ==
  \/ ~Truthy(st)
  \/ /\ JSONparse(st).k = "ok"
     /\ JSONparse(st).val.t = "arr"
     /\ \A i \in 1..Len(JSONparse(st).val.v) : JSONparse(st).val.v[i].t = "str"

\* C8: whatever the store holds at startup, the Controller comes to run;
\* content that is no list of tones gives the form error and an empty list.
C8_StartupNeverCrashes ==
  [][(phase = "unmounted" /\ phase' # "unmounted")
       => /\ phase' = "running"
          /\ ~IsToneList(store)
               => (formError' # NULL /\ customTones' = ArrV(<<>>))]_vars

\* C9 as claimed: while a request is in flight, nothing keeps a second
\* Process action from starting.
C9_ProcessNotGuarded ==
  (phase = "running" /\ pending # <<>>) => ProcessButtonEnabled

\* C9 as amended: while a request is in flight the Process button is
\* disabled, so that at most one request is in flight; and a request leaves
\* only when the API answers it or the page is loaded again.
C9_OneRequestInFlight ==
  /\ [](Len(pending) <= 1)
  /\ []((phase = "running" /\ pending # <<>>) => ~ProcessButtonEnabled)
  /\ [][Len(pending') < Len(pending)
          => (last'.op = "response" \/ phase' = "unmounted")]_vars

\* A request in flight while the user goes on editing.
C9_Witness ==
  /\ phase = "running"
  /\ Len(pending) = 1
  /\ isLoading
  /\ last.op = "other"

\* C10: the API error and a non-empty output are never both there; and
\* while the loading flag is set the output is empty and there is no API
\* error.
C10_ErrorAndOutputExclusive ==
  /\ (apiError = NULL \/ outputText = <<>>)
  /\ isLoading => (outputText = <<>> /\ apiError = NULL)

\* A response that the Controller shows as an API error.
C10_Witness ==
  /\ last.op = "response"
  /\ StartsWith(apiError, ErrorMarker)
  /\ outputText = <<>>
  /\ ~isLoading

=============================================================================
